---- MODULE Spec2Model ----
(***************************************************************************)
(* Model of src/ssp_esri_pydantic.py: make_table_adapter builds a pydantic *)
(* TypeAdapter from the schema of a geodatabase table (fields, domains,    *)
(* subtypes).  A pydantic field tuple (type, Field(...)) is a "node"       *)
(* record; a created model is a function from field names to nodes.        *)
(***************************************************************************)
EXTENDS Integers, Sequences, FiniteSets, TLC

(* ------------------------------ bounds -------------------------------- *)
\* longest field list a described table has
MaxFields == 2
\* largest number of subtypes ListSubtypes returns
MaxSubtypes == 2

(* ------------------------------ values -------------------------------- *)
\* Python None as an optional Field() argument / an optional number
NoneArg == [has |-> FALSE, v |-> 0]
Some(x) == [has |-> TRUE, v |-> x]

\* candidate values of a record: null, integers, strings (n = the length
\* of the string; one string per length), a geometry object
NullV == [k |-> "null", n |-> 0]
IntV(x) == [k |-> "int", n |-> x]
StrV(x) == [k |-> "str", n |-> x]
GeomV == [k |-> "geom", n |-> 0]
Values == {NullV, GeomV} \cup {IntV(x) : x \in {-1, 0, 1, 2, 3, 9}} \cup {StrV(x) : x \in 0..3}

(* --------------------------- static tables ---------------------------- *)
field_type_to_pydantic_dict ==
    [t \in {"Blob", "Date", "Double", "Geometry", "GlobalID", "Guid", "Integer",
            "SmallInteger", "Long", "Short", "OID", "Raster", "Single", "String",
            "Text", "Float"} |->
        CASE t \in {"Blob", "Raster"} -> "Base64Bytes"
          [] t = "Date" -> "datetime"
          [] t \in {"Double", "Single", "Float"} -> "float"
          [] t = "Geometry" -> "GEOMETRY"
          [] t \in {"GlobalID", "Guid"} -> "UUID"
          [] t \in {"Integer", "SmallInteger", "Long", "Short", "OID"} -> "int"
          [] OTHER -> "str"]

\* the integer rows of the table; the Single/Float/Double/BigInteger rows
\* hold bounds beyond the model's integers and belong to types outside the
\* field pool (BigInteger is rejected by the type mapping before it is read)
field_type_min_max ==
    [t \in {"SmallInteger", "Short", "SHORT", "Integer", "Long", "LONG"} |->
        IF t \in {"SmallInteger", "Short", "SHORT"}
        THEN <<-32768, 32767>>
        ELSE <<-2147483647 - 1, 2147483647>>]

\* str.casefold on the names of the model
Casefold(s) ==
    CASE s \in {"SHAPE", "shape"} -> "shape"
      [] s \in {"TYPE", "type"} -> "type"
      [] s \in {"STATUS", "status"} -> "status"
      [] s \in {"OBJECTID", "objectid"} -> "objectid"
      [] OTHER -> s

(* --------------------------- external data ---------------------------- *)
\* arcpy.da.ListDomains(db_path): the domain catalog
domains_list ==
    << [name |-> "dA", domainType |-> "CodedValue", codedValues |-> {StrV(1), StrV(2)},
        range |-> <<NoneArg, NoneArg>>, type |-> "String"],
       [name |-> "dB", domainType |-> "CodedValue", codedValues |-> {StrV(2), StrV(3)},
        range |-> <<NoneArg, NoneArg>>, type |-> "String"],
       [name |-> "dT", domainType |-> "CodedValue", codedValues |-> {IntV(1), IntV(9)},
        range |-> <<NoneArg, NoneArg>>, type |-> "Integer"],
       [name |-> "dEmpty", domainType |-> "CodedValue", codedValues |-> {},
        range |-> <<NoneArg, NoneArg>>, type |-> "String"],
       [name |-> "dRange", domainType |-> "Range", codedValues |-> {},
        range |-> <<Some(0), Some(2)>>, type |-> "Integer"],
       [name |-> "dBadRange", domainType |-> "Range", codedValues |-> {},
        range |-> <<Some(0), Some(2)>>, type |-> "BigInteger"] >>

\* an arcpy Field object
FieldSpec(n, t, e, nl, len, d) ==
    [name |-> n, type |-> t, editable |-> e, isNullable |-> nl, length |-> len, domain |-> d]

ShapeFields == {FieldSpec("SHAPE", "Geometry", e, TRUE, 0, "") : e \in BOOLEAN}
TypeFields ==
    {FieldSpec("TYPE", "Integer", TRUE, FALSE, 4, d) : d \in {"", "dT"}}
    \cup {FieldSpec("TYPE", "Integer", FALSE, FALSE, 4, "")}
StatusFields ==
    {FieldSpec("STATUS", "String", TRUE, nl, 2, d) : nl \in BOOLEAN, d \in {"", "dA"}}
    \cup {FieldSpec("STATUS", "String", TRUE, FALSE, 2, d) : d \in {"dEmpty", "dMissing"}}
    \cup {FieldSpec("STATUS", "Integer", TRUE, nl, 4, "dRange") : nl \in BOOLEAN}
    \cup {FieldSpec("STATUS", "Integer", TRUE, FALSE, 4, "dBadRange"),
          FieldSpec("STATUS", "Text", TRUE, FALSE, 2, ""),
          FieldSpec("STATUS", "BigInteger", TRUE, FALSE, 8, "")}
OidFields == {FieldSpec("OBJECTID", "OID", FALSE, FALSE, 4, "dA")}

\* field lists: at most one field of each name, in the order shape, type,
\* status, objectid
OptSeq(S) == {<<>>} \cup {<<f>> : f \in S}
FieldLists ==
    {a \o b \o c \o d : a \in OptSeq(ShapeFields), b \in OptSeq(TypeFields),
                        c \in OptSeq(StatusFields), d \in OptSeq(OidFields)}
Tables == {fl \in FieldLists : Len(fl) >= 1 /\ Len(fl) <= MaxFields}

(* ------------------------------ nodes --------------------------------- *)
\* a pydantic field tuple (annotation, Field(...)): typ is the annotation's
\* primitive ("Literal" with lits for Literal[...]), optional is the
\* Optional[...] wrapper, hasDefault says the Field carries a default or a
\* default_factory (the field may be omitted) and default is its value
Node(typ, optional, hasDefault, default, ge, le, max_length, lits) ==
    [typ |-> typ, optional |-> optional, hasDefault |-> hasDefault, default |-> default,
     ge |-> ge, le |-> le, max_length |-> max_length, lits |-> lits]
\* make_domain_tuple's "return None"
NoneTuple == Node("None", FALSE, FALSE, NullV, NoneArg, NoneArg, NoneArg, {})
\* a KeyError raised while the tuple was being made
KeyErrorTuple == Node("KeyError", FALSE, FALSE, NullV, NoneArg, NoneArg, NoneArg, {})
\* an UnboundLocalError raised by reading subtype_field_name before assignment
UnboundErrorTuple ==
    Node("UnboundLocalError", FALSE, FALSE, NullV, NoneArg, NoneArg, NoneArg, {})
\* (Any, Field()) of the shape field
ShapeTuple == Node("Any", FALSE, FALSE, NullV, NoneArg, NoneArg, NoneArg, {})

\* Python's None for shape_field_name / a subtype's domain, and the unbound
\* local subtype_field_name
NoName == "<None>"
Unbound == "<unbound>"

(* ------------------------- make_domain_tuple -------------------------- *)
DomainIndex(dl, domain_name) ==
    IF \E i \in 1..Len(dl) : dl[i].name = domain_name
    THEN CHOOSE i \in 1..Len(dl) :
            /\ dl[i].name = domain_name
            /\ \A j \in 1..(i - 1) : dl[j].name # domain_name
    ELSE 0

\* make_domain_tuple without the check for an empty code set
make_domain_tuple_NoEmptyCheck(dl, domain_name, nullable, insert_explicit, max_length) ==
    LET ix == DomainIndex(dl, domain_name)
        the_domain == dl[ix]
    IN  IF ix = 0 THEN NoneTuple
        ELSE IF the_domain.domainType = "CodedValue"
        THEN IF nullable = FALSE /\ insert_explicit
             THEN Node("Literal", FALSE, FALSE, NullV, NoneArg, NoneArg, max_length,
                       the_domain.codedValues)
             ELSE Node("Literal", TRUE, TRUE, NullV, NoneArg, NoneArg, max_length,
                       the_domain.codedValues)
        ELSE IF the_domain.type \notin DOMAIN field_type_to_pydantic_dict
        THEN KeyErrorTuple
        ELSE IF nullable = FALSE /\ insert_explicit
        THEN Node(field_type_to_pydantic_dict[the_domain.type], FALSE, FALSE, NullV,
                  the_domain.range[1], the_domain.range[2], NoneArg, {})
        ELSE Node(field_type_to_pydantic_dict[the_domain.type], TRUE, TRUE, NullV,
                  the_domain.range[1], the_domain.range[2], NoneArg, {})

make_domain_tuple(dl, domain_name, nullable, insert_explicit, max_length) ==
    LET ix == DomainIndex(dl, domain_name)
        the_domain == dl[ix]
    IN  IF ix = 0 THEN NoneTuple
        ELSE IF the_domain.domainType = "CodedValue"
        THEN IF the_domain.codedValues = {} THEN NoneTuple
             ELSE IF nullable = FALSE /\ insert_explicit
             THEN Node("Literal", FALSE, FALSE, NullV, NoneArg, NoneArg, max_length,
                       the_domain.codedValues)
             ELSE Node("Literal", TRUE, TRUE, NullV, NoneArg, NoneArg, max_length,
                       the_domain.codedValues)
        ELSE IF the_domain.type \notin DOMAIN field_type_to_pydantic_dict
        THEN KeyErrorTuple
        ELSE IF nullable = FALSE /\ insert_explicit
        THEN Node(field_type_to_pydantic_dict[the_domain.type], FALSE, FALSE, NullV,
                  the_domain.range[1], the_domain.range[2], NoneArg, {})
        ELSE Node(field_type_to_pydantic_dict[the_domain.type], TRUE, TRUE, NullV,
                  the_domain.range[1], the_domain.range[2], NoneArg, {})

(* ----------------------- type-based derivation ------------------------ *)
\* the else branch of both builders: Field(max_length, ge, le) from the
\* field's type, required unless the field is nullable or strict is off
\* TypeTuple that tests only the strictness, not the field's nullability
TypeTuple_IgnoresNullable(field, insert_explicit, max_length) ==
    LET has == field.type \in DOMAIN field_type_min_max
        ge == IF has THEN Some(field_type_min_max[field.type][1]) ELSE NoneArg
        le == IF has THEN Some(field_type_min_max[field.type][2]) ELSE NoneArg
        pydantic_field_type == field_type_to_pydantic_dict[field.type]
    IN  IF insert_explicit
        THEN Node(pydantic_field_type, FALSE, FALSE, NullV, ge, le, max_length, {})
        ELSE Node(pydantic_field_type, TRUE, TRUE, NullV, ge, le, max_length, {})

TypeTuple(field, insert_explicit, max_length) ==
    LET has == field.type \in DOMAIN field_type_min_max
        ge == IF has THEN Some(field_type_min_max[field.type][1]) ELSE NoneArg
        le == IF has THEN Some(field_type_min_max[field.type][2]) ELSE NoneArg
        pydantic_field_type == field_type_to_pydantic_dict[field.type]
    IN  IF field.isNullable = FALSE /\ insert_explicit
        THEN Node(pydantic_field_type, FALSE, FALSE, NullV, ge, le, max_length, {})
        ELSE Node(pydantic_field_type, TRUE, TRUE, NullV, ge, le, max_length, {})

\* max_length as both loops set it from the field
FieldMaxLength(field) == IF field.type = "String" THEN Some(field.length) ELSE NoneArg

\* one iteration of the flat builder's loop: what it does with the field
\* (op "raise" | "skip" | "set") and the tuple it stores
FlatFieldStep(field, shape_name, insert_explicit) ==
    IF field.type \notin DOMAIN field_type_to_pydantic_dict
    THEN [op |-> "raise", node |-> KeyErrorTuple]
    ELSE IF shape_name # NoName /\ Casefold(field.name) = Casefold(shape_name)
    THEN [op |-> "skip", node |-> NoneTuple]
    ELSE IF field.editable = FALSE
    THEN [op |-> "skip", node |-> NoneTuple]
    ELSE LET max_length == FieldMaxLength(field)
             domain_name == IF field.domain # "" THEN field.domain ELSE NoName
             pydantic_tuple ==
                 IF domain_name # NoName
                 THEN make_domain_tuple(domains_list, domain_name, field.isNullable,
                                        insert_explicit, max_length)
                 ELSE NoneTuple
         IN  IF pydantic_tuple = KeyErrorTuple
             THEN [op |-> "raise", node |-> KeyErrorTuple]
             ELSE IF pydantic_tuple # NoneTuple
             THEN [op |-> "set", node |-> pydantic_tuple]
             ELSE [op |-> "set",
                   node |-> TypeTuple(field, insert_explicit, FieldMaxLength(field))]

\* one iteration of the subtype builder's loop over zip(FieldValues.values(),
\* fields): st_tuple is the (default, domain) pair zipped with the field
SubtypeFieldStep(st_tuple, field, shape_name, subtype_field, subtype_code, insert_explicit) ==
    IF field.type \notin DOMAIN field_type_to_pydantic_dict
    THEN [op |-> "raise", node |-> KeyErrorTuple]
    ELSE IF shape_name # NoName /\ Casefold(field.name) = Casefold(shape_name)
    THEN [op |-> "skip", node |-> NoneTuple]
    ELSE IF field.editable = FALSE
    THEN [op |-> "skip", node |-> NoneTuple]
    ELSE LET max_length == FieldMaxLength(field)
             subtype_domain == st_tuple.domain
             domain_name == IF subtype_domain # NoName THEN subtype_domain
                            ELSE IF field.domain # "" THEN field.domain
                            ELSE NoName
             pydantic_tuple ==
                 IF domain_name # NoName
                 THEN make_domain_tuple(domains_list, domain_name, field.isNullable,
                                        insert_explicit, max_length)
                 ELSE NoneTuple
         IN  IF pydantic_tuple = KeyErrorTuple
             THEN [op |-> "raise", node |-> KeyErrorTuple]
             ELSE IF pydantic_tuple # NoneTuple
             THEN [op |-> "set", node |-> pydantic_tuple]
             ELSE IF subtype_field = Unbound
             THEN [op |-> "raise", node |-> UnboundErrorTuple]
             ELSE IF field.name = subtype_field
             THEN [op |-> "set",
                   node |-> Node("Literal", FALSE, TRUE, subtype_code, NoneArg, NoneArg,
                                 NoneArg, {subtype_code})]
             ELSE [op |-> "set", node |-> TypeTuple(field, insert_explicit, max_length)]

(* ------------------------ subtypes (external) ------------------------- *)
\* the domains a subtype may declare for a field of the given name
OverrideChoices(name) ==
    CASE name = "STATUS" -> {NoName, "dA", "dB", "dEmpty"}
      [] name = "TYPE" -> {NoName, "dT"}
      [] OTHER -> {NoName}

FieldNames(fl) == [i \in 1..Len(fl) |-> fl[i].name]
Reverse(q) == [i \in 1..Len(q) |-> q[Len(q) + 1 - i]]
Front(q) == SubSeq(q, 1, Len(q) - 1)
\* the key orders of a subtype's FieldValues dict: the table's field order,
\* the reverse order, and the field order without its last field
KeyOrders(fl) == {FieldNames(fl), Reverse(FieldNames(fl)), Front(FieldNames(fl))}

\* the FieldValues dicts over a key order: key -> (default, domain)
RECURSIVE FieldValuesOver(_)
FieldValuesOver(ks) ==
    IF ks = <<>> THEN {<<>>}
    ELSE {<<[key |-> Head(ks), default |-> NullV, domain |-> d]>> \o rest :
            d \in OverrideChoices(Head(ks)), rest \in FieldValuesOver(Tail(ks))}

SubtypeName(c) == IF c = 1 THEN "A" ELSE IF c = 2 THEN "B" ELSE "C"

\* an item of arcpy.da.ListSubtypes(table_path): code -> {Name, FieldValues};
\* the codes are the dict's keys, so distinct
SubtypeItems(c, ks) ==
    {[code |-> IntV(c), Name |-> SubtypeName(c), FieldValues |-> fv] :
        fv \in FieldValuesOver(ks)}

(* ------------------------------ state --------------------------------- *)
\* pc is the place in make_table_adapter; subtypes_dict holds the items of
\* ListSubtypes' dict that the loop has reached (the dict has subtype_count
\* items, every FieldValues in key_order); returned is the function's value
VARIABLES pc, insert_explicit, fields, shape_field_name, subtypeFieldName,
          subtype_field_name, subtypes_dict, subtype_count, key_order, s, i,
          create_model_params, subtype_models, table_model, exc, returned

vars == <<pc, insert_explicit, fields, shape_field_name, subtypeFieldName,
          subtype_field_name, subtypes_dict, subtype_count, key_order, s, i,
          create_model_params, subtype_models, table_model, exc, returned>>

\* the arguments and what Describe answered
inputs == <<insert_explicit, fields, shape_field_name, subtypeFieldName>>
\* what ListSubtypes answered, but for the items
listed == <<subtype_field_name, subtype_count, key_order>>

\* create_model_params = {} and the model made of it
EmptyParams == [n \in {} |-> NoneTuple]
\* the value of table_model before the function returns
NoModel == [kind |-> "unset", models |-> <<>>, discriminator |-> NoName]

Init ==
    /\ pc = "start"
    /\ insert_explicit \in BOOLEAN
    /\ fields = <<>>
    /\ shape_field_name = NoName
    /\ subtypeFieldName = ""
    /\ subtype_field_name = Unbound
    /\ subtypes_dict = <<>>
    /\ subtype_count = 0
    /\ key_order = <<>>
    /\ s = 0
    /\ i = 0
    /\ create_model_params = EmptyParams
    /\ subtype_models = <<>>
    /\ table_model = NoModel
    /\ exc = "none"
    /\ returned = NoModel

\* shape_field_name after lines 151-154 for the described fields
ShapeNameOf(fl) ==
    IF \E k \in 1..Len(fl) : fl[k].type = "Geometry" THEN "SHAPE" ELSE NoName

\* create_model_params[shape_field_name] = (Any, Field()) when there is a shape
WithShape(shape_name) ==
    IF shape_name # NoName THEN (shape_name :> ShapeTuple) ELSE EmptyParams

\* lines 146-154: ListDomains and Describe answer
Describe ==
    /\ pc = "start"
    /\ \E fl \in Tables, stf \in {"", "type"} :
          /\ fields' = fl
          /\ shape_field_name' = ShapeNameOf(fl)
          /\ subtypeFieldName' = stf
    /\ pc' = "described"
    /\ UNCHANGED <<insert_explicit, listed, subtypes_dict, s, i, create_model_params,
                   subtype_models, table_model, exc, returned>>

\* lines 146-150: ListDomains or Describe raises (no such table)
DescribeFails ==
    /\ pc = "start"
    /\ pc' = "except"
    /\ exc' = "ExecuteError"
    /\ UNCHANGED <<inputs, listed, subtypes_dict, s, i, create_model_params,
                   subtype_models, table_model, returned>>

\* lines 157-160: the first field whose casefolded name is the subtype
\* field's; the local stays unbound when there is none
FindSubtypeField(fl, stf) ==
    IF \E k \in 1..Len(fl) : Casefold(fl[k].name) = Casefold(stf)
    THEN fl[CHOOSE k \in 1..Len(fl) :
                /\ Casefold(fl[k].name) = Casefold(stf)
                /\ \A j \in 1..(k - 1) : Casefold(fl[j].name) # Casefold(stf)].name
    ELSE Unbound

\* lines 156-162: the table is subtyped; ListSubtypes answers
SubtypedBegin ==
    /\ pc = "described"
    /\ subtypeFieldName # ""
    /\ subtype_field_name' = FindSubtypeField(fields, subtypeFieldName)
    /\ subtype_count' \in 1..MaxSubtypes
    /\ key_order' \in KeyOrders(fields)
    /\ subtypes_dict' = <<>>
    /\ subtype_models' = <<>>
    /\ s' = 1
    /\ pc' = "subtype_begin"
    /\ UNCHANGED <<inputs, i, create_model_params, table_model, exc, returned>>

\* lines 163-174: the loop reaches the next item of the dict; its
\* parameters start with the shape field
SubtypeBegin ==
    /\ pc = "subtype_begin"
    /\ s <= subtype_count
    /\ \E item \in SubtypeItems(s, key_order) : subtypes_dict' = Append(subtypes_dict, item)
    /\ create_model_params' = WithShape(shape_field_name)
    /\ i' = 1
    /\ pc' = "subtype_loop"
    /\ UNCHANGED <<inputs, listed, s, subtype_models, table_model, exc, returned>>

\* the length of zip(FieldValues.values(), desc["fields"])
ZipLen(fv, fl) == IF Len(fv) < Len(fl) THEN Len(fv) ELSE Len(fl)

\* lines 175-233: one iteration over the zip
SubtypeField ==
    /\ pc = "subtype_loop"
    /\ i <= ZipLen(subtypes_dict[s].FieldValues, fields)
    /\ LET step == SubtypeFieldStep(subtypes_dict[s].FieldValues[i], fields[i],
                                    shape_field_name, subtype_field_name,
                                    subtypes_dict[s].code, insert_explicit)
       IN  \/ /\ step.op = "raise"
              /\ pc' = "except"
              /\ exc' = step.node.typ
              /\ UNCHANGED <<i, create_model_params>>
           \/ /\ step.op = "skip"
              /\ i' = i + 1
              /\ UNCHANGED <<pc, exc, create_model_params>>
           \/ /\ step.op = "set"
              /\ create_model_params' = (fields[i].name :> step.node) @@ create_model_params
              /\ i' = i + 1
              /\ UNCHANGED <<pc, exc>>
    /\ UNCHANGED <<inputs, listed, subtypes_dict, s, subtype_models, table_model, returned>>

\* lines 234-237: create_model and append, then the next subtype
SubtypeEnd ==
    /\ pc = "subtype_loop"
    /\ i > ZipLen(subtypes_dict[s].FieldValues, fields)
    /\ subtype_models' = Append(subtype_models, create_model_params)
    /\ s' = s + 1
    /\ pc' = "subtype_begin"
    /\ UNCHANGED <<inputs, listed, subtypes_dict, i, create_model_params, table_model,
                   exc, returned>>

(* --------------------- the discriminated union ------------------------ *)
\* the values a model's discriminator field admits, as pydantic reads them
\* from its Literal annotation
Tags(model, disc) == model[disc].lits

\* TypeAdapter(Annotated[Union[models], Field(discriminator=name)]) is
\* rejected unless every model has the discriminator field annotated with a
\* plain Literal and no value leads to two models
UnionBuildable(models, disc) ==
    /\ \A m \in 1..Len(models) :
          /\ disc \in DOMAIN models[m]
          /\ models[m][disc].typ = "Literal"
          /\ ~models[m][disc].optional
    /\ \A m, n \in 1..Len(models) :
          m # n => Tags(models[m], disc) \cap Tags(models[n], disc) = {}

\* lines 238-241: the union of the subtype models, discriminated by the
\* subtype field
Assemble ==
    /\ pc = "subtype_begin"
    /\ s > subtype_count
    /\ \/ /\ subtype_field_name = Unbound
          /\ exc' = "UnboundLocalError"
          /\ pc' = "except"
          /\ UNCHANGED table_model
       \/ /\ subtype_field_name # Unbound
          /\ ~UnionBuildable(subtype_models, subtype_field_name)
          /\ exc' = "PydanticUserError"
          /\ pc' = "except"
          /\ UNCHANGED table_model
       \/ /\ subtype_field_name # Unbound
          /\ UnionBuildable(subtype_models, subtype_field_name)
          /\ table_model' = [kind |-> "union", models |-> subtype_models,
                             discriminator |-> subtype_field_name]
          /\ pc' = "return"
          /\ UNCHANGED exc
    /\ UNCHANGED <<inputs, listed, subtypes_dict, s, i, create_model_params,
                   subtype_models, returned>>

(* --------------------------- the flat table --------------------------- *)
\* lines 243-250: the table is not subtyped
FlatBegin ==
    /\ pc = "described"
    /\ subtypeFieldName = ""
    /\ create_model_params' = WithShape(shape_field_name)
    /\ i' = 1
    /\ pc' = "flat_loop"
    /\ UNCHANGED <<inputs, listed, subtypes_dict, s, subtype_models, table_model, exc,
                   returned>>

\* lines 252-309: one iteration over desc["fields"]
FlatField ==
    /\ pc = "flat_loop"
    /\ i <= Len(fields)
    /\ LET step == FlatFieldStep(fields[i], shape_field_name, insert_explicit)
       IN  \/ /\ step.op = "raise"
              /\ pc' = "except"
              /\ exc' = step.node.typ
              /\ UNCHANGED <<i, create_model_params>>
           \/ /\ step.op = "skip"
              /\ i' = i + 1
              /\ UNCHANGED <<pc, exc, create_model_params>>
           \/ /\ step.op = "set"
              /\ create_model_params' = (fields[i].name :> step.node) @@ create_model_params
              /\ i' = i + 1
              /\ UNCHANGED <<pc, exc>>
    /\ UNCHANGED <<inputs, listed, subtypes_dict, s, subtype_models, table_model, returned>>

\* lines 310-312: the adapter of the one model
FlatEnd ==
    /\ pc = "flat_loop"
    /\ i > Len(fields)
    /\ table_model' = [kind |-> "flat", models |-> <<create_model_params>>,
                       discriminator |-> NoName]
    /\ pc' = "return"
    /\ UNCHANGED <<inputs, listed, subtypes_dict, s, i, create_model_params,
                   subtype_models, exc, returned>>

(* ------------------------------ the end ------------------------------- *)
\* line 313: return table_model
Return ==
    /\ pc = "return"
    /\ returned' = table_model
    /\ pc' = "done"
    /\ UNCHANGED <<inputs, listed, subtypes_dict, s, i, create_model_params,
                   subtype_models, table_model, exc>>

\* what a caller gets when the function falls off its end
NoneReturned == [kind |-> "None", models |-> <<>>, discriminator |-> NoName]

\* lines 314-316: every exception is logged and the function returns None
Except ==
    /\ pc = "except"
    /\ returned' = NoneReturned
    /\ pc' = "done"
    /\ UNCHANGED <<inputs, listed, subtypes_dict, s, i, create_model_params,
                   subtype_models, table_model, exc>>

Next ==
    \/ Describe
    \/ DescribeFails
    \/ SubtypedBegin
    \/ SubtypeBegin
    \/ SubtypeField
    \/ SubtypeEnd
    \/ Assemble
    \/ FlatBegin
    \/ FlatField
    \/ FlatEnd
    \/ Return
    \/ Except

Spec == Init /\ [][Next]_vars

(* ---------------------------- validation ------------------------------ *)
\* what pydantic does with one value against a field tuple: None passes an
\* Optional[...] or Any annotation only; Literal admits its members; ge, le
\* and max_length are Field constraints
AcceptsValue(node, v) ==
    IF v = NullV THEN node.optional \/ node.typ = "Any"
    ELSE /\ CASE node.typ = "Any" -> TRUE
              [] node.typ = "Literal" -> v \in node.lits
              [] node.typ = "int" -> v.k = "int"
              [] node.typ = "str" -> v.k = "str"
              [] OTHER -> FALSE
         /\ (node.ge.has /\ v.k = "int") => v.n >= node.ge.v
         /\ (node.le.has /\ v.k = "int") => v.n <= node.le.v
         /\ (node.max_length.has /\ v.k = "str") => v.n <= node.max_length.v

\* a field may be left out of a record when its Field has a default
AcceptsOmitted(node) == node.hasDefault

\* a model made with __base__=_NoExtras: no unknown key, every key checked
ValidateModel(model, rec) ==
    /\ DOMAIN rec \subseteq DOMAIN model
    /\ \A k \in DOMAIN model :
          IF k \in DOMAIN rec THEN AcceptsValue(model[k], rec[k])
          ELSE AcceptsOmitted(model[k])

\* TypeAdapter.validate_python: the flat model, or the model that the
\* record's discriminator value selects
Validate(adapter, rec) ==
    IF adapter.kind = "flat" THEN ValidateModel(adapter.models[1], rec)
    ELSE /\ adapter.kind = "union"
         /\ adapter.discriminator \in DOMAIN rec
         /\ \E m \in 1..Len(adapter.models) :
               /\ rec[adapter.discriminator] \in Tags(adapter.models[m], adapter.discriminator)
               /\ ValidateModel(adapter.models[m], rec)

(* ----------------------- helpers of the properties -------------------- *)
HasField(k) == \E j \in 1..Len(fields) : fields[j].name = k
FieldIndex(k) == CHOOSE j \in 1..Len(fields) : fields[j].name = k
FieldNamed(k) == fields[FieldIndex(k)]
Subtyped == subtypeFieldName # ""

\* the models built so far, each with the subtype it was built for (0 for
\* the flat table) : the finished subtype models, and the parameters of the
\* model in the making
Built ==
    {[model |-> subtype_models[m], st |-> m] : m \in 1..Len(subtype_models)}
    \cup (IF pc \in {"subtype_loop", "flat_loop"}
             \/ (pc \in {"return", "done"} /\ ~Subtyped)
             \/ (pc = "except" /\ i >= 1 /\ s <= Len(subtypes_dict))
          THEN {[model |-> create_model_params, st |-> s]}
          ELSE {})

\* the node is the subtype field's literal pinned to a subtype code
Pinned(node) == node.typ = "Literal" /\ node.hasDefault /\ node.default # NullV

\* the domain of that name gives no constraint
Unusable(domain_name) ==
    LET ix == DomainIndex(domains_list, domain_name)
    IN  \/ ix = 0
        \/ /\ domains_list[ix].domainType = "CodedValue"
           /\ domains_list[ix].codedValues = {}

\* the domain name the builder uses for field k in the model of subtype st
EffectiveDomain(k, st) ==
    IF st # 0 /\ subtypes_dict[st].FieldValues[FieldIndex(k)].domain # NoName
    THEN subtypes_dict[st].FieldValues[FieldIndex(k)].domain
    ELSE FieldNamed(k).domain

\* the same field with no domain declared, and a subtype entry without one
NoDomainField(f) == [f EXCEPT !.domain = ""]
NoOverride == [key |-> "", default |-> NullV, domain |-> NoName]

\* the tuple the builder makes for field f of subtype st with no domain
NoDomainStep(f, st) ==
    IF st = 0
    THEN FlatFieldStep(NoDomainField(f), shape_field_name, insert_explicit)
    ELSE SubtypeFieldStep(NoOverride, NoDomainField(f), shape_field_name,
                          subtype_field_name, subtypes_dict[st].code, insert_explicit)

(* ---------------------------- properties ------------------------------ *)
\* the keys of a built model that come from the coded-value, range or
\* type-based branch: not the shape field, not a pinned subtype literal
DerivedKeys(model) ==
    {k \in DOMAIN model : k # shape_field_name /\ ~Pinned(model[k])}

\* C1: every node derived through the coded-value, range or type-based
\* branch, flat or subtyped: a non-nullable field under strict is required
\* and rejects null; a nullable field, or any field when strict is off, may
\* be omitted, accepts null, and defaults to null.
C1_RequiredIffNonNullableStrict ==
    \A b \in Built : \A k \in DerivedKeys(b.model) :
        IF FieldNamed(k).isNullable = FALSE /\ insert_explicit
        THEN /\ ~AcceptsOmitted(b.model[k])
             /\ ~AcceptsValue(b.model[k], NullV)
        ELSE /\ AcceptsOmitted(b.model[k])
             /\ AcceptsValue(b.model[k], NullV)
             /\ b.model[k].default = NullV

\* a returned union with a required coded-value node and, in another
\* subtype, the same field's type-based node
C1_Witness ==
    /\ pc = "done"
    /\ returned.kind = "union"
    /\ insert_explicit
    /\ \E m, n \in 1..Len(returned.models) :
          /\ "STATUS" \in DOMAIN returned.models[m]
          /\ "STATUS" \in DOMAIN returned.models[n]
          /\ returned.models[m]["STATUS"].typ = "Literal"
          /\ returned.models[n]["STATUS"].typ = "str"
          /\ ~FieldNamed("STATUS").isNullable

\* the keys of a built model other than the shape field
FieldKeys(model) == {k \in DOMAIN model : k # shape_field_name}

\* C6: a field whose effective domain is unusable (not in the catalog, or
\* coded-value with no codes) gets the node the same field gets with no
\* domain declared, and the builder raises on it only if it raises on the
\* field with no domain.
C6_UnusableDomainAsNoDomain ==
    /\ \A b \in Built : \A k \in FieldKeys(b.model) :
          (EffectiveDomain(k, b.st) # "" /\ Unusable(EffectiveDomain(k, b.st)))
              => b.model[k] = NoDomainStep(FieldNamed(k), b.st).node
    /\ (/\ pc = "except"
        /\ i >= 1
        /\ s <= Len(subtypes_dict)
        /\ EffectiveDomain(fields[i].name, s) # ""
        /\ Unusable(EffectiveDomain(fields[i].name, s)))
           => NoDomainStep(fields[i], s).op = "raise"

\* a returned union in which a subtype overrides STATUS' usable domain with
\* an empty coded-value domain and the node is the type-based one
C6_Witness ==
    /\ pc = "done"
    /\ returned.kind = "union"
    /\ HasField("STATUS")
    /\ FieldNamed("STATUS").domain = "dA"
    /\ \E m \in 1..Len(returned.models) :
          /\ "STATUS" \in DOMAIN returned.models[m]
          /\ EffectiveDomain("STATUS", m) = "dEmpty"
          /\ returned.models[m]["STATUS"].typ = "str"
          /\ returned.models[m]["STATUS"].max_length = Some(2)

\* C2: no field with editable = FALSE is a key of a built model, the shape
\* field and the subtype field included.
C2_NoNonEditableKey ==
    \A b \in Built : \A k \in DOMAIN b.model :
        HasField(k) => FieldNamed(k).editable

\* C3: in every subtype model that has the subtype field, its node is the
\* literal of the subtype's code alone, whatever domain the field has.
C3_DiscriminatorPinned ==
    \A m \in 1..Len(subtype_models) :
        (subtype_field_name # Unbound /\ subtype_field_name \in DOMAIN subtype_models[m])
            => /\ subtype_models[m][subtype_field_name].typ = "Literal"
               /\ subtype_models[m][subtype_field_name].lits = {subtypes_dict[m].code}

\* C4: a configuration error (unmapped type, subtype field matching no
\* field) never ends with the function returning None.
C4_ErrorSurfaced ==
    (pc = "done" /\ exc \in {"KeyError", "UnboundLocalError"}) => returned.kind # "None"

\* the records a returned union is tried on: a discriminator value, with or
\* without a STATUS value
UnionRecords ==
    {("TYPE" :> t) : t \in {IntV(1), IntV(2), IntV(3), IntV(9)}}
    \cup {("TYPE" :> t) @@ ("STATUS" :> v) :
            t \in {IntV(1), IntV(2), IntV(3), IntV(9)}, v \in {NullV, StrV(1), StrV(3)}}

\* C5: a record whose discriminator is the code of subtype S is validated
\* as S's model alone validates it, and a record whose discriminator is no
\* subtype's code fails.
C5_UnionDispatch ==
    (pc = "done" /\ returned.kind = "union") =>
        \A rec \in UnionRecords :
            IF \E m \in 1..Len(subtypes_dict) : subtypes_dict[m].code = rec["TYPE"]
            THEN \A m \in 1..Len(subtypes_dict) :
                    subtypes_dict[m].code = rec["TYPE"]
                        => Validate(returned, rec) = ValidateModel(returned.models[m], rec)
            ELSE ~Validate(returned, rec)

\* the entry a subtype declares for the field of that name, if it has one
OverrideByName(fv, name) ==
    IF \E j \in 1..Len(fv) : fv[j].key = name
    THEN fv[CHOOSE j \in 1..Len(fv) : fv[j].key = name]
    ELSE NoOverride

\* C7: in a subtype model the node of a field other than the subtype field
\* is derived with the override domain the subtype declares under that
\* field's name, else the field's own domain, whatever the order or number
\* of the subtype's entries.
C7_OverrideByFieldName ==
    \A m \in 1..Len(subtype_models) : \A k \in FieldKeys(subtype_models[m]) :
        k # subtype_field_name =>
            subtype_models[m][k] =
                SubtypeFieldStep(OverrideByName(subtypes_dict[m].FieldValues, k),
                                 FieldNamed(k), shape_field_name, subtype_field_name,
                                 subtypes_dict[m].code, insert_explicit).node

\* C8: the shape field's node is required and rejects null, strict or not.
C8_ShapeRequiredNonNull ==
    \A b \in Built :
        (shape_field_name # NoName /\ shape_field_name \in DOMAIN b.model)
            => /\ ~AcceptsOmitted(b.model[shape_field_name])
               /\ ~AcceptsValue(b.model[shape_field_name], NullV)

\* the domain of that name is a usable range domain
UsableRange(domain_name) ==
    LET ix == DomainIndex(domains_list, domain_name)
    IN  ix # 0 /\ domains_list[ix].domainType = "Range"

\* C9: with no usable domain or a coded-value domain, the node's length
\* bound is the field's length when the field is String or Text, and absent
\* otherwise, in both builders.
C9_LengthBoundOfTextual ==
    \A b \in Built : \A k \in FieldKeys(b.model) :
        ~UsableRange(EffectiveDomain(k, b.st)) =>
            b.model[k].max_length =
                (IF FieldNamed(k).type \in {"String", "Text"}
                 THEN Some(FieldNamed(k).length) ELSE NoneArg)

\* the keys the flat builder makes for the field list: the shape field and
\* the editable fields
FlatKeys ==
    {fields[j].name : j \in {n \in 1..Len(fields) :
        fields[n].editable \/ fields[n].name = shape_field_name}}

\* C10: every subtype model has the keys the flat builder would make.
C10_SubtypeKeysAreFlatKeys ==
    \A m \in 1..Len(subtype_models) : DOMAIN subtype_models[m] = FlatKeys

====
